---- MODULE Spec2Model ----
(***************************************************************************)
(* A model of src/hypergraph.py: the HyperGraph container (node_data,      *)
(* node_incidence, edge_data), its Edge keys with their EdgeData objects,  *)
(* the mutating methods and the NeighborMap / NeighborAtlas views.         *)
(*                                                                         *)
(* Python objects that can be aliased (EdgeData) live in `heap` and are    *)
(* named by a reference; an Edge object is the record of its slots, its    *)
(* `data` slot holding the reference of its EdgeData.  A raised exception  *)
(* is an outcome of the call: the state keeps whatever the method had      *)
(* already written when it raised.                                         *)
(***************************************************************************)
EXTENDS Integers, Sequences, FiniteSets, TLC

VARIABLES node_data, node_incidence, edge_data, heap, copied, faults, last

vars == <<node_data, node_incidence, edge_data, heap, copied, faults, last>>

(***************************************************************************)
(* Bounds of the model.                                                    *)
(***************************************************************************)
\* the most edges a graph of the model holds at a time
MaxEdges == 2

\* the most calls of a run that raise after they have changed the graph
MaxFaults == 1

\* the node values the calls of the model are made with
Nodes == {1, 2, 3}

Graphs == {"G", "H"}

\* edgekey=None, and one explicit discriminator
NoKey == "None"
EdgeKeys == {NoKey, "a"}

(***************************************************************************)
(* Python dicts as functions with a finite domain.                         *)
(***************************************************************************)
EmptyMap == [k \in {} |-> 0]

Put(f, k, v) == [x \in DOMAIN f \cup {k} |-> IF x = k THEN v ELSE f[x]]

Del(f, k) == [x \in DOMAIN f \ {k} |-> f[x]]

\* dict.update / MutableMapping.update: the supplied keys override
Update(d, kwds) ==
    [k \in DOMAIN d \cup DOMAIN kwds |-> IF k \in DOMAIN kwds THEN kwds[k] ELSE d[k]]

Range(s) == {s[i] : i \in DOMAIN s}

RECURSIVE SortedSeq(_)
SortedSeq(S) ==
    IF S = {} THEN <<>>
    ELSE LET m == CHOOSE x \in S : \A y \in S : x <= y
         IN <<m>> \o SortedSeq(S \ {m})

\* every order in which the elements of a finite set can be listed
PermSeqs(S) ==
    {f \in [1..Cardinality(S) -> S] : \A i, j \in 1..Cardinality(S) : i # j => f[i] # f[j]}

(***************************************************************************)
(* Member collections.  A tuple keeps its sequence; a set is kept as the   *)
(* ascending sequence of its distinct members, so that two sets are equal  *)
(* iff their sequences are.                                                *)
(***************************************************************************)
TupleOf(s) == [kind |-> "tuple", nodes |-> s]

SetOf(S) == [kind |-> "set", nodes |-> SortedSeq(S)]

\* the member collections the calls of the model are made with: the empty ones,
\* a unary edge, tuples with and without a repeated member, and sets
Tuples == {<<>>, <<1>>, <<2, 3>>, <<1, 1, 2>>, <<1, 2, 2>>, <<1, 2, 3>>}

Sets == {{2, 3}, {1, 2, 3}}

Nbunches == {TupleOf(s) : s \in Tuples} \cup {SetOf(S) : S \in Sets}

\* Edge.__init__: the slots of an Edge object; data is the reference of its EdgeData
Edge(nbunch, edgekey, data) ==
    [kind |-> nbunch.kind, nodes |-> nbunch.nodes, edgekey |-> edgekey, data |-> data]

\* Edge.__eq__ comparing the members as __hash__ does, frozenset(self._nodes) for a
\* set: with the members compared as sets, a tuple equals the set of its members
EdgeEq_members(e, f) == (Range(e.nodes) = Range(f.nodes)) /\ (e.edgekey = f.edgekey)

\* Edge.__eq__: a tuple never equals a set
EdgeEq(e, f) == (e.kind = f.kind /\ e.nodes = f.nodes) /\ (e.edgekey = f.edgekey)

\* what Edge.__eq__ and Edge.__hash__ read of an Edge
EdgeId(e) == [kind |-> e.kind, nodes |-> e.nodes, edgekey |-> e.edgekey]

\* Edge.__contains__
EdgeContains(e, node) == node \in Range(e.nodes)

\* Edge.__len__
EdgeLen(e) == Len(e.nodes)

\* Edge.__iter__: a tuple is iterated in its order, a set in an order of its own
IterOrders(e) == IF e.kind = "tuple" THEN {e.nodes} ELSE PermSeqs(Range(e.nodes))

\* the order in which a set built inside a method is iterated, by the hash order ord
IterOrder(e, ord) ==
    IF e.kind = "tuple" THEN e.nodes ELSE SelectSeq(ord, LAMBDA n : n \in Range(e.nodes))

(***************************************************************************)
(* The state a method works on, and what a call comes to.                  *)
(***************************************************************************)
Cur == [node_data |-> node_data, node_incidence |-> node_incidence,
        edge_data |-> edge_data, heap |-> heap]

Return(st, r) == [st |-> st, exc |-> "none", ret |-> r]

Raise(st, x) == [st |-> st, exc |-> x, ret |-> "Raised"]

\* the reference a newly constructed EdgeData gets
NewRef(st) == CHOOSE r \in 1..(Cardinality(DOMAIN st.heap) + 1) : r \notin DOMAIN st.heap

\* `e in self.edge_data` / self.edge_data[e]: the entries whose key equals e
Lookup(ed, e) == {x \in ed : EdgeEq(x.key, e)}

\* the elements of a set of Edge objects that equal e
SetFind(S, e) == {x \in S : EdgeEq(x, e)}

\* set.add: an equal element already there stays
SetAdd(S, e) == IF SetFind(S, e) # {} THEN S ELSE S \cup {e}

\* self.edge_data[e] = data: an equal key already there stays, with the new value
DictSet(ed, e, data) ==
    IF Lookup(ed, e) # {}
    THEN {IF EdgeEq(x.key, e) THEN [key |-> x.key, val |-> data] ELSE x : x \in ed}
    ELSE ed \cup {[key |-> e, val |-> data]}

\* add_node with `self.node_data[node] = kwds` for the update of a node that is there
add_node_replace(st, g, node, kwds) ==
    IF node \in DOMAIN st.node_data[g]
    THEN Return([st EXCEPT !.node_data[g][node] = kwds], "False")
    ELSE Return([st EXCEPT !.node_data[g] = Put(@, node, kwds),
                           !.node_incidence[g] = Put(@, node, {})], "True")

(***************************************************************************)
(* HyperGraph.add_node                                                     *)
(***************************************************************************)
add_node(st, g, node, kwds) ==
    IF node \in DOMAIN st.node_data[g]
    THEN Return([st EXCEPT !.node_data[g][node] = Update(@, kwds)], "False")
    ELSE Return([st EXCEPT !.node_data[g] = Put(@, node, kwds),
                           !.node_incidence[g] = Put(@, node, {})], "True")

(***************************************************************************)
(* HyperGraph.add_edge                                                     *)
(***************************************************************************)
\* for n in e: ... (lines 95-100)
RECURSIVE add_edge_loop(_, _, _, _)
add_edge_loop(st, g, e, seq) ==
    IF seq = <<>> THEN Return(st, "Edge")
    ELSE LET n == Head(seq)
         IN IF n \notin DOMAIN st.node_data[g]
            THEN add_edge_loop([st EXCEPT !.node_data[g] = Put(@, n, EmptyMap),
                                          !.node_incidence[g] = Put(@, n, {e})],
                               g, e, Tail(seq))
            ELSE IF n \notin DOMAIN st.node_incidence[g]
            THEN Raise(st, "KeyError")
            ELSE add_edge_loop([st EXCEPT !.node_incidence[g][n] = SetAdd(@, e)],
                               g, e, Tail(seq))

\* add_edge with `self.edge_data[e] = e.data` for the update of an edge that is
\* there: the attributes of the call take the place of the edge's
add_edge_replace(st, g, arg, kwds, order) ==
    LET r == NewRef(st)
        st1 == IF arg.isEdge
               THEN [st EXCEPT !.heap[arg.e.data] = Update(@, kwds)]
               ELSE [st EXCEPT !.heap = Put(@, r, kwds)]
        e == IF arg.isEdge THEN arg.e ELSE Edge(arg.nbunch, arg.edgekey, r)
        hit == Lookup(st1.edge_data[g], e)
    IN IF hit # {}
       THEN LET x == CHOOSE x \in hit : TRUE
            IN Return([st1 EXCEPT !.heap[x.val] = kwds], "False")
       ELSE add_edge_loop([st1 EXCEPT !.edge_data[g] = @ \cup {[key |-> e, val |-> e.data]}],
                          g, e, order)

\* arg is an Edge object ([isEdge |-> TRUE, e |-> ...]) or raw members with the
\* edgekey popped from kwds ([isEdge |-> FALSE, nbunch |-> ..., edgekey |-> ...]);
\* order is the order in which `for n in e` lists e
add_edge(st, g, arg, kwds, order) ==
    LET r == NewRef(st)
        st1 == IF arg.isEdge
               THEN [st EXCEPT !.heap[arg.e.data] = Update(@, kwds)]
               ELSE [st EXCEPT !.heap = Put(@, r, kwds)]
        e == IF arg.isEdge THEN arg.e ELSE Edge(arg.nbunch, arg.edgekey, r)
        hit == Lookup(st1.edge_data[g], e)
    IN IF hit # {}
       THEN LET x == CHOOSE x \in hit : TRUE
            IN Return([st1 EXCEPT !.heap[x.val] = Update(@, kwds)], "False")
       ELSE add_edge_loop([st1 EXCEPT !.edge_data[g] = @ \cup {[key |-> e, val |-> e.data]}],
                          g, e, order)

(***************************************************************************)
(* HyperGraph.remove_edge                                                  *)
(***************************************************************************)
\* for n in e: self.node_incidence[n].remove(e)
RECURSIVE incidence_remove_loop(_, _, _, _)
incidence_remove_loop(st, g, e, seq) ==
    IF seq = <<>> THEN Return(st, "None")
    ELSE LET n == Head(seq)
         IN IF n \notin DOMAIN st.node_incidence[g]
            THEN Raise(st, "KeyError")
            ELSE IF SetFind(st.node_incidence[g][n], e) = {}
            THEN Raise(st, "KeyError")
            ELSE incidence_remove_loop(
                     [st EXCEPT !.node_incidence[g][n] = @ \ SetFind(@, e)],
                     g, e, Tail(seq))

\* remove_edge that begins `if e not in self.edge_data: return`
remove_edge_discard(st, g, e, order) ==
    LET hit == Lookup(st.edge_data[g], e)
    IN IF hit = {}
       THEN Return(st, "None")
       ELSE incidence_remove_loop([st EXCEPT !.edge_data[g] = @ \ hit], g, e, order)

\* e is the Edge given, or Edge(nbunch, None) built from raw members
remove_edge(st, g, e, order) ==
    LET hit == Lookup(st.edge_data[g], e)
    IN IF hit = {}
       THEN Raise(st, "KeyError")
       ELSE incidence_remove_loop([st EXCEPT !.edge_data[g] = @ \ hit], g, e, order)

(***************************************************************************)
(* HyperGraph.remove_node                                                  *)
(***************************************************************************)
\* for nbr in newe: self.node_incidence[nbr].add(newe)
RECURSIVE incidence_add_loop(_, _, _, _)
incidence_add_loop(st, g, e, seq) ==
    IF seq = <<>> THEN Return(st, "None")
    ELSE LET n == Head(seq)
         IN IF n \notin DOMAIN st.node_incidence[g]
            THEN Raise(st, "KeyError")
            ELSE incidence_add_loop([st EXCEPT !.node_incidence[g][n] = SetAdd(@, e)],
                                    g, e, Tail(seq))

\* nbunch = (n for n in e if n != node), as a set or as a tuple like e.nodes
Without(e, node) ==
    [kind |-> e.kind, nodes |-> SelectSeq(e.nodes, LAMBDA n : n # node)]

\* the body of `for e in list(self.node_incidence[node])` for one e
remove_node_step(st, g, node, e, ord) ==
    IF Lookup(st.edge_data[g], e) = {}
    THEN Raise(st, "KeyError")
    ELSE LET r == NewRef(st)
             newe == Edge(Without(e, node), e.edgekey, r)
             order == IterOrder(newe, ord)
             st1 == [st EXCEPT !.edge_data[g] = @ \ Lookup(@, e),
                               !.heap = Put(@, r, st.heap[e.data])]
             added == IF EdgeLen(newe) > 1
                      THEN incidence_add_loop(
                               [st1 EXCEPT !.edge_data[g] = DictSet(@, newe, newe.data)],
                               g, newe, order)
                      ELSE Return(st1, "None")
         IN IF added.exc # "none" THEN added
            ELSE incidence_remove_loop(added.st, g, e, order)

RECURSIVE remove_node_loop(_, _, _, _, _)
remove_node_loop(st, g, node, eseq, ord) ==
    IF eseq = <<>> THEN Return(st, "None")
    ELSE LET r == remove_node_step(st, g, node, Head(eseq), ord)
         IN IF r.exc # "none" THEN r
            ELSE remove_node_loop(r.st, g, node, Tail(eseq), ord)

\* remove_node that begins `if node not in self.node_data: return`
remove_node_discard(st, g, node, eseq, ord) ==
    IF node \notin DOMAIN st.node_data[g]
    THEN Return(st, "None")
    ELSE LET st1 == [st EXCEPT !.node_data[g] = Del(@, node)]
         IN IF node \notin DOMAIN st1.node_incidence[g]
            THEN Raise(st1, "KeyError")
            ELSE LET r == remove_node_loop(st1, g, node, eseq, ord)
                 IN IF r.exc # "none" THEN r
                    ELSE Return([r.st EXCEPT !.node_incidence[g] = Del(@, node)], "None")

\* eseq is list(self.node_incidence[node]); ord the hash order of the new sets
remove_node(st, g, node, eseq, ord) ==
    IF node \notin DOMAIN st.node_data[g]
    THEN Raise(st, "KeyError")
    ELSE LET st1 == [st EXCEPT !.node_data[g] = Del(@, node)]
         IN IF node \notin DOMAIN st1.node_incidence[g]
            THEN Raise(st1, "KeyError")
            ELSE LET r == remove_node_loop(st1, g, node, eseq, ord)
                 IN IF r.exc # "none" THEN r
                    ELSE Return([r.st EXCEPT !.node_incidence[g] = Del(@, node)], "None")

\* the orders in which list(self.node_incidence[node]) can come out
IncidenceOrders(st, g, node) ==
    IF node \in DOMAIN st.node_incidence[g]
    THEN PermSeqs(st.node_incidence[g][node])
    ELSE {<<>>}

(***************************************************************************)
(* HyperGraph.clear: self.graph is no attribute of a HyperGraph            *)
(***************************************************************************)
clear(st, g) ==
    Raise([st EXCEPT !.node_data[g] = EmptyMap,
                     !.edge_data[g] = {},
                     !.node_incidence[g] = EmptyMap], "AttributeError")

(***************************************************************************)
(* HyperGraph.copy: self is graph src, the new HyperGraph is graph dst     *)
(***************************************************************************)
\* for n, ndata in self.nodes(data=True): G.add_node(n, **ndata)
RECURSIVE copy_nodes(_, _, _, _)
copy_nodes(st, src, dst, nseq) ==
    IF nseq = <<>> THEN Return(st, "None")
    ELSE LET r == add_node(st, dst, Head(nseq), st.node_data[src][Head(nseq)])
         IN copy_nodes(r.st, src, dst, Tail(nseq))

\* for e, edata in self.edges(data=True): G.add_edge(e, **edata)
RECURSIVE copy_edges(_, _, _, _)
copy_edges(st, dst, xseq, ord) ==
    IF xseq = <<>> THEN Return(st, "None")
    ELSE LET x == Head(xseq)
             r == add_edge(st, dst, [isEdge |-> TRUE, e |-> x.key], st.heap[x.val],
                           IterOrder(x.key, ord))
         IN IF r.exc # "none" THEN r
            ELSE copy_edges(r.st, dst, Tail(xseq), ord)

\* nseq and xseq are the orders in which node_data and edge_data are iterated
copy(st, src, dst, nseq, xseq, ord) ==
    LET new == [st EXCEPT !.node_data[dst] = EmptyMap,
                          !.node_incidence[dst] = EmptyMap,
                          !.edge_data[dst] = {}]
        r == copy_edges(copy_nodes(new, src, dst, nseq).st, dst, xseq, ord)
    IN IF r.exc # "none" THEN r ELSE Return(r.st, "HyperGraph")

(***************************************************************************)
(* Reading the graph: neighbors, NeighborMap, NeighborAtlas                *)
(***************************************************************************)
\* what one incident edge e yields for node (lines 148-153, 193-198)
EdgeYield(e, node, order) ==
    IF EdgeLen(e) = 1 THEN <<node>> ELSE SelectSeq(order, LAMBDA n : n # node)

RECURSIVE YieldAll(_, _, _)
YieldAll(eseq, node, ord) ==
    IF eseq = <<>> THEN <<>>
    ELSE EdgeYield(Head(eseq), node, IterOrder(Head(eseq), ord))
             \o YieldAll(Tail(eseq), node, ord)

\* HyperGraph.neighbors(node), consumed to its end: the items, or the KeyError of
\* self.node_incidence[node]; eseq is the order the incidence set is iterated in
neighbors(st, g, node, eseq, ord) ==
    IF node \notin DOMAIN st.node_incidence[g]
    THEN [exc |-> "KeyError", items |-> <<>>]
    ELSE [exc |-> "none", items |-> YieldAll(eseq, node, ord)]

\* NeighborMap.__iter__ of G[node], consumed to its end
NeighborMap_iter(st, g, node, eseq, ord) ==
    IF node \notin DOMAIN st.node_incidence[g]
    THEN [exc |-> "KeyError", items |-> <<>>]
    ELSE [exc |-> "none", items |-> YieldAll(eseq, node, ord)]

\* NeighborMap.__getitem__ of G[node]: the dict {e: e.data} of the edges of the
\* incidence set that have nbr as a member
NeighborMap_getitem(st, g, node, nbr) ==
    IF node \notin DOMAIN st.node_incidence[g]
    THEN [exc |-> "KeyError", ret |-> {}]
    ELSE LET ei == {[key |-> e, val |-> e.data] :
                        e \in {f \in st.node_incidence[g][node] : EdgeContains(f, nbr)}}
         IN IF Cardinality(ei) = 0
            THEN [exc |-> "KeyError", ret |-> {}]
            ELSE [exc |-> "none", ret |-> ei]

RECURSIVE SumLen(_)
SumLen(S) ==
    IF S = {} THEN 0
    ELSE LET e == CHOOSE x \in S : TRUE
         IN (IF EdgeLen(e) > 1 THEN EdgeLen(e) - 1 ELSE 1) + SumLen(S \ {e})

\* NeighborMap.__len__ of G[node]
NeighborMap_len(st, g, node) ==
    IF node \notin DOMAIN st.node_incidence[g]
    THEN [exc |-> "KeyError", ret |-> 0]
    ELSE [exc |-> "none", ret |-> SumLen(st.node_incidence[g][node])]

\* NeighborAtlas.__iter__: the nodes of the (node, NeighborMap) pairs it yields
NeighborAtlas_iter(st, g) == DOMAIN st.node_incidence[g]

\* len() of a NeighborAtlas: MappingView.__len__ is len(self._mapping), HyperGraph.__len__
NeighborAtlas_len(st, g) == Cardinality(DOMAIN st.node_data[g])

\* the call G.neighbors(node) itself: neighbors is a generator function, the call
\* runs none of its body and hands back the generator
neighbors_call(st, g, node) == [exc |-> "none", ret |-> "generator"]

\* HyperGraph.__getitem__: G[node] builds the NeighborMap whatever node is
HyperGraph_getitem(st, g, node) == [exc |-> "none", ret |-> "NeighborMap"]

\* NeighborAtlas.__getitem__: G.adjacency()[node]
NeighborAtlas_getitem(st, g, node) ==
    IF node \in DOMAIN st.node_incidence[g]
    THEN [exc |-> "none", ret |-> "NeighborMap"]
    ELSE [exc |-> "KeyError", ret |-> "Raised"]

\* HyperGraph.has_edge
has_edge(st, g, e) == Lookup(st.edge_data[g], e) # {}

\* HyperGraph.size
size(st, g) == Cardinality(st.edge_data[g])

(***************************************************************************)
(* The calls as steps.  An EdgeData no Edge and no graph refers to any     *)
(* more is gone from the heap.                                             *)
(***************************************************************************)
UsedRefs(st) ==
    UNION {{x.val : x \in st.edge_data[g]} \cup {x.key.data : x \in st.edge_data[g]}
           \cup UNION {{e.data : e \in st.node_incidence[g][n]} :
                            n \in DOMAIN st.node_incidence[g]} : g \in Graphs}

\* Which reference an EdgeData has is not observable, only which slots hold the same
\* one: the references in use are renumbered 1, 2, ... in the order of the first
\* slot that holds them (graph, then edge_data key, value, incidence set of a node).
RECURSIVE NodesCode(_)
NodesCode(seq) ==
    IF seq = <<>> THEN 0 ELSE Head(seq) + (Cardinality(Nodes) + 1) * NodesCode(Tail(seq))

IdCode(e) ==
    (IF e.kind = "set" THEN 1 ELSE 0) + 2 * (IF e.edgekey = NoKey THEN 0 ELSE 1)
        + 4 * NodesCode(e.nodes)

SlotCode(g, slot, e) ==
    (IF g = "G" THEN 0 ELSE 1) + 2 * slot + 2 * (Cardinality(Nodes) + 3) * IdCode(e)

SlotsOf(st, r) ==
    UNION {{SlotCode(g, 0, x.key) : x \in {y \in st.edge_data[g] : y.key.data = r}}
           \cup {SlotCode(g, 1, x.key) : x \in {y \in st.edge_data[g] : y.val = r}}
           \cup UNION {{SlotCode(g, 1 + n, e) :
                            e \in {f \in st.node_incidence[g][n] : f.data = r}} :
                            n \in DOMAIN st.node_incidence[g]} : g \in Graphs}

FirstSlot(st, r) == CHOOSE c \in SlotsOf(st, r) : \A d \in SlotsOf(st, r) : c <= d

\* first: the pairs <<reference, its first slot>>; the new name of r is its rank
NewName(first, r) ==
    LET mine == CHOOSE p \in first : p[1] = r
    IN 1 + Cardinality({p \in first : p[2] < mine[2]})

Renamed(st, names) ==
    LET name(r) == (CHOOSE p \in names : p[1] = r)[2]
        ren(e) == [e EXCEPT !.data = name(@)]
    IN [node_data |-> st.node_data,
        node_incidence |->
            [g \in Graphs |-> [n \in DOMAIN st.node_incidence[g] |->
                {ren(e) : e \in st.node_incidence[g][n]}]],
        edge_data |->
            [g \in Graphs |-> {[key |-> ren(x.key), val |-> name(x.val)] :
                                  x \in st.edge_data[g]}],
        heap |-> [i \in {p[2] : p \in names} |-> st.heap[(CHOOSE p \in names : p[2] = i)[1]]]]

Ranked(st, first) == Renamed(st, {<<p[1], NewName(first, p[1])>> : p \in first})

Collect(st) == Ranked(st, {<<r, FirstSlot(st, r)>> : r \in UsedRefs(st)})

\* r raised a KeyError part of the way: the graph is not as the call found it
Faulty(r) == r.exc = "KeyError" /\ r.st # Cur

\* the graph is left as st, and the call is recorded
Commit(st, rec, fault) ==
    /\ fault => faults < MaxFaults
    /\ faults' = IF fault THEN faults + 1 ELSE faults
    /\ node_data' = st.node_data
    /\ node_incidence' = st.node_incidence
    /\ edge_data' = st.edge_data
    /\ heap' = st.heap
    /\ last' = rec

\* the call op(node ...) came to r: the state it left, whether it raised, what it returned
Do(op, node, r) ==
    Commit(IF r.st = Cur THEN Cur ELSE Collect(r.st),
           [op |-> op, node |-> node, exc |-> r.exc, ret |-> r.ret], Faulty(r))

NoKwds == {EmptyMap}

Init ==
    /\ node_data = [g \in Graphs |-> EmptyMap]
    /\ node_incidence = [g \in Graphs |-> EmptyMap]
    /\ edge_data = [g \in Graphs |-> {}]
    /\ heap = EmptyMap
    /\ copied = FALSE
    /\ faults = 0
    /\ last = [op |-> "init", node |-> 0, exc |-> "none", ret |-> "None"]

AddNode(g, NS, KW) ==
    \E n \in NS, kwds \in KW :
        /\ Do("add_node", n, add_node(Cur, g, n, kwds))
        /\ UNCHANGED copied

\* g.add_edge(nbunch, edgekey=k, **kwds), with room for one more edge
AddEdge(g, NB, KS, KW) ==
    \E nb \in NB, k \in KS, kwds \in KW :
        \E order \in IterOrders(nb) :
            /\ Cardinality(edge_data[g]) < MaxEdges
                   \/ has_edge(Cur, g, Edge(nb, k, 0))
            /\ Do("add_edge", 0,
                  add_edge(Cur, g, [isEdge |-> FALSE, nbunch |-> nb, edgekey |-> k],
                           kwds, order))
            /\ UNCHANGED copied

\* g.remove_edge(nbunch), or g.remove_edge(Edge(nbunch, k)) for a discriminator k
RemoveEdge(g, NB, KS) ==
    \E nb \in NB, k \in KS :
        \E order \in IterOrders(nb) :
            /\ Do("remove_edge", 0, remove_edge(Cur, g, Edge(nb, k, 0), order))
            /\ UNCHANGED copied

\* the hash orders that make a difference to remove_node(n): one, when no edge
\* incident to n is a set
HashOrders(st, g, n) ==
    IF n \in DOMAIN st.node_incidence[g] /\ \E e \in st.node_incidence[g][n] : e.kind = "set"
    THEN PermSeqs(Nodes)
    ELSE {SortedSeq(Nodes)}

RemoveNode(g, NS) ==
    \E n \in NS :
        \E eseq \in IncidenceOrders(Cur, g, n), ord \in HashOrders(Cur, g, n) :
            /\ Do("remove_node", n, remove_node(Cur, g, n, eseq, ord))
            /\ UNCHANGED copied

Clear(g) ==
    /\ Do("clear", 0, clear(Cur, g))
    /\ UNCHANGED copied

\* H = G.copy()
Copy ==
    \E nseq \in PermSeqs(DOMAIN node_data["G"]), xseq \in PermSeqs(edge_data["G"]) :
        /\ Do("copy", 0, copy(Cur, "G", "H", nseq, xseq, SortedSeq(Nodes)))
        /\ copied' = TRUE

Next ==
    \/ AddNode("G", Nodes, NoKwds)
    \/ AddEdge("G", Nbunches, EdgeKeys, NoKwds)
    \/ RemoveEdge("G", Nbunches, EdgeKeys)
    \/ RemoveNode("G", Nodes)
    \/ Clear("G")

Spec == Init /\ [][Next]_vars

(***************************************************************************)
(* A graph and its copy, with attributes: the calls are made with two      *)
(* edges, the second of which remove_node(1) reduces to the first.         *)
(***************************************************************************)
CopyKwds == {EmptyMap, [w |-> 1]}

CopyNbunches == {TupleOf(<<2, 3>>), TupleOf(<<1, 2, 3>>)}

NextCopy ==
    \/ AddNode("G", {1}, CopyKwds)
    \/ AddEdge("G", CopyNbunches, {NoKey}, CopyKwds)
    \/ RemoveEdge("G", CopyNbunches, {NoKey})
    \/ RemoveNode("G", {1})
    \/ Copy
    \/ copied /\ AddNode("H", {1}, CopyKwds)
    \/ copied /\ AddEdge("H", CopyNbunches, {NoKey}, CopyKwds)
    \/ copied /\ RemoveEdge("H", CopyNbunches, {NoKey})
    \/ copied /\ RemoveNode("H", {1})

SpecCopy == Init /\ [][NextCopy]_vars

(***************************************************************************)
(* One graph with node and edge attributes: two attribute names, one of    *)
(* them with two values; remove_node(1) reduces the edge (1, 2, 3) to the  *)
(* edge (2, 3), and fails on the edge (1, 2, 2).                           *)
(***************************************************************************)
AttrKwds == {EmptyMap, [w |-> 1], [w |-> 2], [c |-> 1]}

AttrNbunches == {TupleOf(<<2, 3>>), TupleOf(<<1, 2, 3>>), TupleOf(<<1, 2, 2>>)}

NextAttrs ==
    \/ AddNode("G", {1}, AttrKwds)
    \/ AddEdge("G", AttrNbunches, {NoKey}, AttrKwds)
    \/ RemoveEdge("G", AttrNbunches, {NoKey})
    \/ RemoveNode("G", {1})

SpecAttrs == Init /\ [][NextAttrs]_vars

(***************************************************************************)
(* What a caller can read of a graph                                       *)
(***************************************************************************)
\* edges(): the identities of the keys of edge_data
EdgeIds(st, g) == {EdgeId(x.key) : x \in st.edge_data[g]}

\* edges(data=True): each edge with the mapping stored for it
EdgeAttrs(st, g) ==
    {[id |-> EdgeId(x.key), attrs |-> st.heap[x.val]] : x \in st.edge_data[g]}

\* the incidence sets, by the identity of their edges
IncidenceIds(st, g) ==
    [n \in DOMAIN st.node_incidence[g] |-> {EdgeId(e) : e \in st.node_incidence[g][n]}]

\* the three maps of g are as in st0
SameMaps(st, st0, g) ==
    /\ st.node_data[g] = st0.node_data[g]
    /\ IncidenceIds(st, g) = IncidenceIds(st0, g)
    /\ EdgeAttrs(st, g) = EdgeAttrs(st0, g)

(***************************************************************************)
(* C1: for every node n of the incidence map and every edge e in           *)
(* incidence[n], e is a key of the edge-attribute map and n is a member    *)
(* of e, in every state the calls can reach (a call that raised included). *)
(***************************************************************************)
IncidenceSound(st, g) ==
    \A n \in DOMAIN st.node_incidence[g] : \A e \in st.node_incidence[g][n] :
        has_edge(st, g, e) /\ EdgeContains(e, n)

C1_IncidenceSound == IncidenceSound(Cur, "G")

(***************************************************************************)
(* C2: the node-attribute map and the incidence map have the same keys in  *)
(* every state the calls can reach.                                        *)
(***************************************************************************)
SameNodeSet(st, g) == DOMAIN st.node_data[g] = DOMAIN st.node_incidence[g]

C2_SameNodeSet == SameNodeSet(Cur, "G")

(***************************************************************************)
(* C8: for every edge e of the edge-attribute map and every member n of e, *)
(* n is a key of the incidence map and e is in incidence[n], in every      *)
(* state the calls can reach.                                              *)
(***************************************************************************)
EdgesIncident(st, g) ==
    \A x \in st.edge_data[g] : \A n \in Range(x.key.nodes) :
        /\ n \in DOMAIN st.node_incidence[g]
        /\ SetFind(st.node_incidence[g][n], x.key) # {}

C8_EdgesIncident == EdgesIncident(Cur, "G")

(***************************************************************************)
(* C3: for every reachable graph and every node n present in it,           *)
(* remove_node(n) completes, and afterwards n is in neither the node map   *)
(* nor the incidence map, no edge of the edge-attribute map has n as a     *)
(* member, and no incidence set holds an edge that has n as a member or    *)
(* that is absent from the edge-attribute map.                             *)
(***************************************************************************)
NodeGone(st, g, n) ==
    /\ n \notin DOMAIN st.node_data[g]
    /\ n \notin DOMAIN st.node_incidence[g]
    /\ \A x \in st.edge_data[g] : ~EdgeContains(x.key, n)
    /\ \A m \in DOMAIN st.node_incidence[g] : \A e \in st.node_incidence[g][m] :
           ~EdgeContains(e, n) /\ has_edge(st, g, e)

C3_RemoveNodeCompletes ==
    \A n \in DOMAIN node_data["G"] :
        \A eseq \in IncidenceOrders(Cur, "G", n), ord \in HashOrders(Cur, "G", n) :
            LET r == remove_node(Cur, "G", n, eseq, ord)
            IN r.exc = "none" /\ NodeGone(r.st, "G", n)

(***************************************************************************)
(* C4: the edges after remove_node(n) are the edges without n, and for     *)
(* each edge with n that keeps at least 2 members, the edge over those     *)
(* members with its discriminator and kind; an edge with n that keeps      *)
(* fewer than 2 members is gone, from every incidence set too.             *)
(***************************************************************************)
Remaining(id, n) == SelectSeq(id.nodes, LAMBDA m : m # n)

EdgesAfterRemoveNode(ids, n) ==
    {id \in ids : n \notin Range(id.nodes)}
        \cup {[id EXCEPT !.nodes = Remaining(id, n)] :
                  id \in {i \in ids : n \in Range(i.nodes) /\ Len(Remaining(i, n)) >= 2}}

DroppedByRemoveNode(ids, n) ==
    {id \in ids : n \in Range(id.nodes) /\ Len(Remaining(id, n)) < 2}

C4_RemoveNodeEdges ==
    \A n \in DOMAIN node_data["G"] :
        \A eseq \in IncidenceOrders(Cur, "G", n), ord \in HashOrders(Cur, "G", n) :
            LET r == remove_node(Cur, "G", n, eseq, ord)
            IN /\ EdgeIds(r.st, "G") = EdgesAfterRemoveNode(EdgeIds(Cur, "G"), n)
               /\ \A id \in DroppedByRemoveNode(EdgeIds(Cur, "G"), n) :
                      \A m \in DOMAIN r.st.node_incidence["G"] :
                          id \notin IncidenceIds(r.st, "G")[m]

(***************************************************************************)
(* C5: for every reachable graph and every edge e present in it,           *)
(* remove_edge(e) completes, and afterwards has_edge(e) is false, e is in  *)
(* no incidence set, every other edge and its incidence entries are as     *)
(* before, and so are the node set and the node attributes.                *)
(***************************************************************************)
EdgeRemoved(st, st0, g, e) ==
    /\ ~has_edge(st, g, e)
    /\ \A n \in DOMAIN st.node_incidence[g] : SetFind(st.node_incidence[g][n], e) = {}
    /\ EdgeAttrs(st, g) = {x \in EdgeAttrs(st0, g) : x.id # EdgeId(e)}
    /\ DOMAIN st.node_incidence[g] = DOMAIN st0.node_incidence[g]
    /\ \A n \in DOMAIN st0.node_incidence[g] :
           IncidenceIds(st, g)[n] = IncidenceIds(st0, g)[n] \ {EdgeId(e)}
    /\ st.node_data[g] = st0.node_data[g]

C5_RemoveEdgeCompletes ==
    \A x \in edge_data["G"] : \A order \in IterOrders(x.key) :
        LET r == remove_edge(Cur, "G", x.key, order)
        IN r.exc = "none" /\ EdgeRemoved(r.st, Cur, "G", x.key)

(***************************************************************************)
(* C6: add_edge with an empty member collection, with or without a         *)
(* discriminator, fails with InvalidEdge and leaves the three maps as they *)
(* were, so that no edge of the edge-attribute map is ever empty.          *)
(***************************************************************************)
C6_EmptyEdgeRejected ==
    /\ \A x \in edge_data["G"] : EdgeLen(x.key) > 0
    /\ \A nb \in {b \in Nbunches : b.nodes = <<>>}, k \in EdgeKeys :
           LET r == add_edge(Cur, "G", [isEdge |-> FALSE, nbunch |-> nb, edgekey |-> k],
                             EmptyMap, <<>>)
           IN r.exc = "InvalidEdge" /\ SameMaps(r.st, Cur, "G")

(***************************************************************************)
(* C7: for every node n of a reachable graph, the length of G[n] is the    *)
(* number of items that iterating neighbors(n), and iterating G[n],        *)
(* produces, also when an incident tuple edge repeats n or another member. *)
(***************************************************************************)
C7_LenIsCount ==
    \A n \in DOMAIN node_data["G"] :
        \A eseq \in IncidenceOrders(Cur, "G", n), ord \in PermSeqs(Nodes) :
            LET len == NeighborMap_len(Cur, "G", n)
                nbrs == neighbors(Cur, "G", n, eseq, ord)
                iter == NeighborMap_iter(Cur, "G", n, eseq, ord)
            IN /\ len.exc = "none" /\ nbrs.exc = "none" /\ iter.exc = "none"
               /\ len.ret = Len(nbrs.items)
               /\ len.ret = Len(iter.items)

(***************************************************************************)
(* C9: on every reachable graph clear() completes without a failure and    *)
(* leaves the three maps empty; a NeighborMap of a node of the graph and a *)
(* NeighborAtlas obtained before then iterate to nothing and have length   *)
(* 0, without raising.                                                     *)
(***************************************************************************)
ViewsEmpty(st, g, ns) ==
    /\ \A n \in ns :
           /\ NeighborMap_iter(st, g, n, <<>>, SortedSeq(Nodes)) = [exc |-> "none", items |-> <<>>]
           /\ NeighborMap_len(st, g, n) = [exc |-> "none", ret |-> 0]
    /\ NeighborAtlas_iter(st, g) = {}
    /\ NeighborAtlas_len(st, g) = 0

C9_ClearCompletes ==
    LET r == clear(Cur, "G")
    IN /\ r.exc = "none"
       /\ r.st.node_data["G"] = EmptyMap
       /\ r.st.node_incidence["G"] = EmptyMap
       /\ r.st.edge_data["G"] = {}
       /\ ViewsEmpty(r.st, "G", DOMAIN node_data["G"])

(***************************************************************************)
(* C10: copy() returns a graph with the nodes, node attributes, edges and  *)
(* edge attributes of G and leaves G as it was; and the two graphs share   *)
(* no mutable state: a later add_node, add_edge, remove_edge or            *)
(* remove_node on one of them leaves the maps of the other as they were.   *)
(***************************************************************************)
CopyIsEqual ==
    \A nseq \in PermSeqs(DOMAIN node_data["G"]), xseq \in PermSeqs(edge_data["G"]) :
        LET r == copy(Cur, "G", "H", nseq, xseq, SortedSeq(Nodes))
        IN /\ r.exc = "none"
           /\ r.st.node_data["H"] = node_data["G"]
           /\ EdgeAttrs(r.st, "H") = EdgeAttrs(Cur, "G")
           /\ SameMaps(r.st, Cur, "G")

\* every call on g leaves the maps of the other graph o as they were
CallsLeave(g, o) ==
    /\ \A n \in Nodes, kwds \in CopyKwds :
           SameMaps(add_node(Cur, g, n, kwds).st, Cur, o)
    /\ \A nb \in CopyNbunches, k \in EdgeKeys, kwds \in CopyKwds :
           SameMaps(add_edge(Cur, g, [isEdge |-> FALSE, nbunch |-> nb, edgekey |-> k],
                             kwds, nb.nodes).st, Cur, o)
    /\ \A nb \in CopyNbunches, k \in EdgeKeys :
           SameMaps(remove_edge(Cur, g, Edge(nb, k, 0), nb.nodes).st, Cur, o)
    /\ \A n \in Nodes :
           \A eseq \in IncidenceOrders(Cur, g, n), ord \in HashOrders(Cur, g, n) :
               SameMaps(remove_node(Cur, g, n, eseq, ord).st, Cur, o)

C10_CopyIndependent ==
    /\ CopyIsEqual
    /\ copied => CallsLeave("G", "H") /\ CallsLeave("H", "G")

(***************************************************************************)
(* C11: remove_edge of an edge identity that is not in the graph, given as *)
(* raw members (looked up with no discriminator) or as an Edge, raises     *)
(* KeyError and leaves the node-attribute, incidence and edge-attribute    *)
(* maps (and every EdgeData) exactly as they were.                         *)
(***************************************************************************)
C11_RemoveAbsentEdge ==
    \A nb \in Nbunches, k \in EdgeKeys : \A order \in IterOrders(nb) :
        ~has_edge(Cur, "G", Edge(nb, k, 0)) =>
            LET r == remove_edge(Cur, "G", Edge(nb, k, 0), order)
            IN r.exc = "KeyError" /\ r.st = Cur

\* a remove_edge has raised KeyError on a graph that holds an edge, and left the
\* graph as it found it
C11_Witness ==
    /\ last.op = "remove_edge" /\ last.exc = "KeyError"
    /\ faults = 0
    /\ edge_data["G"] # {}

(***************************************************************************)
(* C12: for every node n absent from the graph, each of the calls          *)
(* neighbors(n), G[n] and adjacency()[n] raises KeyError at the call,      *)
(* handing nothing back.                                                   *)
(***************************************************************************)
C12_AbsentNodeFailsAtCall ==
    \A n \in Nodes \ DOMAIN node_data["G"] :
        /\ neighbors_call(Cur, "G", n).exc = "KeyError"
        /\ HyperGraph_getitem(Cur, "G", n).exc = "KeyError"
        /\ NeighborAtlas_getitem(Cur, "G", n).exc = "KeyError"

(***************************************************************************)
(* C13: remove_node(n) for a node n absent from the graph raises KeyError  *)
(* and leaves the node-attribute, incidence and edge-attribute maps        *)
(* exactly as they were.                                                   *)
(***************************************************************************)
C13_RemoveAbsentNode ==
    \A n \in Nodes \ DOMAIN node_data["G"] :
        \A eseq \in IncidenceOrders(Cur, "G", n), ord \in HashOrders(Cur, "G", n) :
            LET r == remove_node(Cur, "G", n, eseq, ord)
            IN r.exc = "KeyError" /\ r.st = Cur

\* a remove_node of a node that is not in a graph with nodes has raised KeyError
C13_Witness ==
    /\ last.op = "remove_node" /\ last.exc = "KeyError"
    /\ faults = 0
    /\ last.node \notin DOMAIN node_data["G"]
    /\ DOMAIN node_data["G"] # {}

(***************************************************************************)
(* C14: for every node n of a reachable graph, the nodes neighbors(n)      *)
(* yields, and those iterating G[n] yields, are as a multiset the sum over *)
(* the edges of the graph that have n as a member of: n once if the edge   *)
(* has exactly one member, otherwise every member other than n as often as *)
(* the edge lists it.                                                      *)
(***************************************************************************)
Count(seq, m) == Cardinality({i \in DOMAIN seq : seq[i] = m})

\* how often one edge with n as a member makes m a neighbour of n
NeighborCount(id, n, m) ==
    IF Len(id.nodes) = 1 THEN (IF m = n THEN 1 ELSE 0)
    ELSE IF m = n THEN 0 ELSE Count(id.nodes, m)

RECURSIVE SumNeighborCount(_, _, _)
SumNeighborCount(ids, n, m) ==
    IF ids = {} THEN 0
    ELSE LET id == CHOOSE x \in ids : TRUE
         IN NeighborCount(id, n, m) + SumNeighborCount(ids \ {id}, n, m)

IncidentIds(st, g, n) == {id \in EdgeIds(st, g) : n \in Range(id.nodes)}

NeighborsAsClaimed(n) ==
    \A eseq \in IncidenceOrders(Cur, "G", n), ord \in PermSeqs(Nodes) :
        LET nbrs == neighbors(Cur, "G", n, eseq, ord)
            iter == NeighborMap_iter(Cur, "G", n, eseq, ord)
        IN /\ nbrs.exc = "none" /\ iter.exc = "none"
           /\ \A m \in Nodes :
                  /\ Count(nbrs.items, m) = SumNeighborCount(IncidentIds(Cur, "G", n), n, m)
                  /\ Count(iter.items, m) = SumNeighborCount(IncidentIds(Cur, "G", n), n, m)

C14_NeighborsMultiset == \A n \in DOMAIN node_data["G"] : NeighborsAsClaimed(n)

(***************************************************************************)
(* C15: an edge is found in the graph iff an edge with the same kind       *)
(* (tuple or set), equal members (as sequences for tuples, as sets for     *)
(* sets) and an equal discriminator is in it: has_edge of a tuple does not *)
(* find the set of its members nor the set the tuple, an edge with one     *)
(* discriminator is not found by another, and size() is the number of      *)
(* distinct such identities in the graph.                                  *)
(***************************************************************************)
\* the identity of the edge that raw members nb with discriminator k make
IdOf(nb, k) == [kind |-> nb.kind, nodes |-> nb.nodes, edgekey |-> k]

\* the member collections edges of the model can have: the ones the calls are
\* made with and what remove_node reduces them to
Reduced == Nbunches \cup {Without(nb, n) : nb \in Nbunches, n \in Nodes}

C15_EdgeIdentity ==
    /\ \A nb \in Reduced, k \in EdgeKeys :
           has_edge(Cur, "G", Edge(nb, k, 0)) <=> IdOf(nb, k) \in EdgeIds(Cur, "G")
    /\ size(Cur, "G") = Cardinality(EdgeIds(Cur, "G"))
    /\ \A x \in edge_data["G"] : x.key.kind = "set" =>
           \A order \in PermSeqs(Range(x.key.nodes)) :
               has_edge(Cur, "G", Edge(SetOf(Range(order)), x.key.edgekey, 0))

\* the tuple (2, 3) and the set {2, 3} are two edges of the graph
C15_Witness ==
    /\ has_edge(Cur, "G", Edge(TupleOf(<<2, 3>>), NoKey, 0))
    /\ has_edge(Cur, "G", Edge(SetOf({2, 3}), NoKey, 0))
    /\ size(Cur, "G") = 2

(***************************************************************************)
(* C16: add_edge of an identity that is in the graph, given as raw members *)
(* with their discriminator, as the stored Edge, or as a new Edge with     *)
(* attributes of its own, returns False, leaves the nodes, their           *)
(* attributes, every incidence set and the set of edges as they were, and  *)
(* changes the attributes of that edge only: they become the previous ones *)
(* updated with the keyword attributes of the call.                        *)
(***************************************************************************)
\* r is the outcome of an add_edge of x's identity with attributes kwds on st0
MergedInto(r, st0, x, kwds) ==
    /\ r.exc = "none" /\ r.ret = "False"
    /\ r.st.node_data["G"] = st0.node_data["G"]
    /\ IncidenceIds(r.st, "G") = IncidenceIds(st0, "G")
    /\ EdgeIds(r.st, "G") = EdgeIds(st0, "G")
    /\ EdgeAttrs(r.st, "G") =
           {IF a.id = EdgeId(x.key) THEN [a EXCEPT !.attrs = Update(@, kwds)] ELSE a :
                a \in EdgeAttrs(st0, "G")}

C16_AddExistingEdgeMerges ==
    \A x \in edge_data["G"], kwds \in AttrKwds :
        LET nb == [kind |-> x.key.kind, nodes |-> x.key.nodes]
            raw == [isEdge |-> FALSE, nbunch |-> nb, edgekey |-> x.key.edgekey]
            stored == [isEdge |-> TRUE, e |-> x.key]
        IN /\ MergedInto(add_edge(Cur, "G", raw, kwds, nb.nodes), Cur, x, kwds)
           /\ MergedInto(add_edge(Cur, "G", stored, kwds, nb.nodes), Cur, x, kwds)
           /\ \A own \in AttrKwds :
                  LET r == NewRef(Cur)
                      st0 == [Cur EXCEPT !.heap = Put(@, r, own)]
                      new == [isEdge |-> TRUE, e |-> Edge(nb, x.key.edgekey, r)]
                  IN MergedInto(add_edge(st0, "G", new, kwds, nb.nodes), st0, x, kwds)

\* an add_edge has found its edge in the graph, and the edge has both attributes,
\* which two calls have given it
C16_Witness ==
    /\ last.op = "add_edge" /\ last.ret = "False"
    /\ \E a \in EdgeAttrs(Cur, "G") : a.attrs = [c |-> 1, w |-> 2]

(***************************************************************************)
(* C17: add_node(n) on a graph without n returns True and adds n with the  *)
(* given attributes and an empty incidence set; on a graph with n it       *)
(* returns False, leaves the node set, every incidence set and the edge    *)
(* map as they were and updates n's attributes with the given ones; and a  *)
(* second add_node(n) leaves the node set of the first.                    *)
(***************************************************************************)
NodeAdded(r, n, kwds) ==
    /\ r.exc = "none" /\ r.ret = "True"
    /\ r.st.node_data["G"] = Put(node_data["G"], n, kwds)
    /\ r.st.node_incidence["G"] = Put(node_incidence["G"], n, {})
    /\ r.st.edge_data = edge_data /\ r.st.heap = heap

NodeMerged(r, n, kwds) ==
    /\ r.exc = "none" /\ r.ret = "False"
    /\ r.st.node_data["G"] = Put(node_data["G"], n, Update(node_data["G"][n], kwds))
    /\ DOMAIN r.st.node_data["G"] = DOMAIN node_data["G"]
    /\ r.st.node_incidence = node_incidence
    /\ r.st.edge_data = edge_data /\ r.st.heap = heap

C17_AddNode ==
    \A n \in Nodes, kwds \in AttrKwds :
        LET r == add_node(Cur, "G", n, kwds)
        IN /\ IF n \in DOMAIN node_data["G"]
              THEN NodeMerged(r, n, kwds)
              ELSE NodeAdded(r, n, kwds)
           /\ \A again \in AttrKwds :
                  LET r2 == add_node(r.st, "G", n, again)
                  IN /\ r2.ret = "False"
                     /\ DOMAIN r2.st.node_data["G"] = DOMAIN r.st.node_data["G"]

\* an add_node has found its node in the graph, and the node has both attributes,
\* which two calls have given it
C17_Witness ==
    /\ last.op = "add_node" /\ last.ret = "False"
    /\ 1 \in DOMAIN node_data["G"]
    /\ node_data["G"][1] = [c |-> 1, w |-> 2]

(***************************************************************************)
(* C18: when remove_node(n) reduces an edge e to the identity of an edge x *)
(* of the graph, the call completes and the graph then holds that identity *)
(* once, with the attributes of x updated with those of e: the keys of x   *)
(* that e does not set are kept, and e's values override.                  *)
(***************************************************************************)
C18_CollisionMerges ==
    \A n \in DOMAIN node_data["G"] :
        \A eseq \in IncidenceOrders(Cur, "G", n), ord \in HashOrders(Cur, "G", n) :
            LET r == remove_node(Cur, "G", n, eseq, ord)
            IN \A e, x \in EdgeAttrs(Cur, "G") :
                   (/\ n \in Range(e.id.nodes)
                    /\ Len(Remaining(e.id, n)) >= 2
                    /\ x.id = [e.id EXCEPT !.nodes = Remaining(e.id, n)])
                   => /\ r.exc = "none"
                      /\ {a \in EdgeAttrs(r.st, "G") : a.id = x.id}
                             = {[id |-> x.id, attrs |-> Update(x.attrs, e.attrs)]}

(***************************************************************************)
(* C19: for every edge of the graph, the attributes that edges(data=True)  *)
(* reports (the value of the edge-attribute map) are those the stored Edge *)
(* carries in its data, and those every G[n][m] that returns the edge      *)
(* gives for it.                                                           *)
(***************************************************************************)
C19_OneAttributeMapping ==
    /\ \A x \in edge_data["G"] : heap[x.val] = heap[x.key.data]
    /\ \A n \in DOMAIN node_incidence["G"], m \in Nodes :
           LET r == NeighborMap_getitem(Cur, "G", n, m)
           IN r.exc = "none" =>
                  \A y \in r.ret : \A x \in Lookup(edge_data["G"], y.key) :
                      heap[y.val] = heap[x.val]

(***************************************************************************)
(* C20: for every node n of the graph and every node m, m = n included,    *)
(* G[n][m] returns iff iterating G[n] yields m, and raises KeyError        *)
(* otherwise; what it returns are the edges of the graph that have both n  *)
(* and m as members.                                                       *)
(***************************************************************************)
C20_LookupIffYielded ==
    \A n \in DOMAIN node_data["G"], m \in Nodes :
        \A eseq \in IncidenceOrders(Cur, "G", n), ord \in PermSeqs(Nodes) :
            LET r == NeighborMap_getitem(Cur, "G", n, m)
                iter == NeighborMap_iter(Cur, "G", n, eseq, ord)
            IN /\ iter.exc = "none"
               /\ r.exc = "none" <=> m \in Range(iter.items)
               /\ r.exc # "none" => r.exc = "KeyError"
               /\ r.exc = "none" =>
                      {EdgeId(y.key) : y \in r.ret}
                          = {id \in IncidentIds(Cur, "G", n) : m \in Range(id.nodes)}

====
